---- MODULE Spec2Model ----
(***************************************************************************)
(* Model of bookops_sierra_api.session.SierraSession: construction with    *)
(* argument validation and token acquisition, get_token, the response      *)
(* format helper and the six endpoint methods.  The HTTP transport and the *)
(* OAuth2 token exchange are the environment: every outcome they can       *)
(* produce is a nondeterministic input of the calling action.              *)
(***************************************************************************)
EXTENDS Integers, Sequences, FiniteSets, TLC

VARIABLES phase, base_url, key, secret, token_url, access_token, headers,
          closed, call, sent, wire, result, issued

vars == <<phase, base_url, key, secret, token_url, access_token, headers,
          closed, call, sent, wire, result, issued>>

(* ------------------------------ bounds --------------------------------- *)
\* number of distinct bearer tokens the authorization server can issue
MaxTokens == 2

(* -------------------------- program constants -------------------------- *)
TIMEOUT == 5

(* --------------------------- Python values ----------------------------- *)
\* a Python value: its type and its str() rendering
PyStr(s) == [t |-> "str", v |-> s]
PyInt(s) == [t |-> "int", v |-> s]
PyNone == [t |-> "none", v |-> "None"]
\* a positional argument the caller left out
Missing == [t |-> "missing", v |-> ""]

\* a URL string: the path segments after the host, and whether it ends in "/"
Url(path, dir) == [t |-> "str", path |-> path, dir |-> dir]
UrlNone == [t |-> "none", path |-> <<>>, dir |-> FALSE]
UrlMissing == [t |-> "missing", path |-> <<>>, dir |-> FALSE]

\* a needed_by string: <<>> is '', <<y, m, d>> is the text "y-m-d",
\* <<"text">> is any other text
DateStr(v) == [t |-> "str", v |-> v]

BaseUrls == { Url(<<"iii", "v5">>, TRUE), Url(<<"iii", "v5">>, FALSE),
              UrlNone, UrlMissing }
Keys == { PyStr("my_key"), PyNone, Missing }
Secrets == { PyStr("my_secret"), PyInt("7"), PyNone, Missing }
Tokens == 1..MaxTokens
Ids == { PyInt("123456"), PyStr("abc") }
Bids == { PyStr("10000002"), PyInt("123456") }
Locations == { PyStr("agc"), PyNone }
Notes == { PyStr(""), PyInt("7") }
Fields == { PyStr("default"), PyInt("7") }
Limits == { PyInt("50"), PyStr("ten") }
Offsets == { PyInt("0"), PyNone }
Formats == { PyStr("json"), PyStr("xml"), PyNone }
NeededBys == { DateStr(<<>>), DateStr(<<2024, 2, 29>>), DateStr(<<2023, 2, 29>>),
               DateStr(<<2024, 13, 40>>), DateStr(<<"text">>),
               [t |-> "none", v |-> <<>>] }
Todays == { <<2024, 2, 20>>, <<2023, 12, 25>> }
Statuses == { "200", "404", "500" }

(* ------------------------------ helpers -------------------------------- *)
\* urllib.parse.urljoin(base, rel) for a relative path rel without dots:
\* the last segment of a base that does not end in "/" is replaced
urljoin(base, rel) ==
    [path |-> (IF base.dir \/ base.path = <<>>
               THEN base.path
               ELSE SubSeq(base.path, 1, Len(base.path) - 1)) \o rel,
     dir |-> FALSE]

\* dict.update: entries of new replace those of old
HeadersUpdate(old, new) == new @@ old

\* requests merges the session headers with the headers of the call,
\* the call's entries winning
MergeHeaders(session_headers, request_headers) == request_headers @@ session_headers

NoHeaders == [n \in {} |-> <<>>]
Bearer(tok) == <<"Bearer", tok>>
Basic(k, s) == <<"Basic", k.v, s.v>>

\* the headers of a fresh requests session
SessionDefaults ==
    [n \in {"User-Agent", "Accept-Encoding", "Accept", "Connection"} |->
       CASE n = "User-Agent" -> <<"python-requests">>
         [] n = "Accept-Encoding" -> <<"gzip, deflate">>
         [] n = "Accept" -> <<"*/*">>
         [] n = "Connection" -> <<"keep-alive">>]

WrapperHeaders ==
    [n \in {"User-Agent", "Accept"} |->
       IF n = "User-Agent" THEN <<"BookOps-Sierra-API-wrapper">>
                           ELSE <<"application/json">>]

IsLeap(y) == (y % 4 = 0 /\ y % 100 # 0) \/ y % 400 = 0

DaysInMonth(y, m) ==
    IF m = 2 THEN (IF IsLeap(y) THEN 29 ELSE 28)
    ELSE IF m \in {4, 6, 9, 11} THEN 30 ELSE 31

\* variant: every month has 31 days
StrptimeOk_Day31(v) ==
    /\ Len(v) = 3
    /\ v[1] \in 1..9999
    /\ v[2] \in 1..12
    /\ v[3] \in 1..31

\* datetime.strptime(s, '%Y-%m-%d') succeeds
StrptimeOk(v) ==
    /\ Len(v) = 3
    /\ v[1] \in 1..9999
    /\ v[2] \in 1..12
    /\ v[3] \in 1..DaysInMonth(v[1], v[2])

NextDay(d) ==
    IF d[3] < DaysInMonth(d[1], d[2]) THEN <<d[1], d[2], d[3] + 1>>
    ELSE IF d[2] < 12 THEN <<d[1], d[2] + 1, 1>>
    ELSE <<d[1] + 1, 1, 1>>

RECURSIVE AddDays(_, _)
AddDays(d, n) == IF n = 0 THEN d ELSE AddDays(NextDay(d), n - 1)

\* outcomes of a call
Returned(status) == [kind |-> "return", exc |-> "", status |-> status]
Raised(exc) == [kind |-> "raise", exc |-> exc, status |-> ""]
NoResult == [kind |-> "none", exc |-> "", status |-> ""]

\* what the transport does with a request
Response(status) == [kind |-> "response", exc |-> "", status |-> status]
TransportError(exc) == [kind |-> "error", exc |-> exc, status |-> ""]
NoWire == [kind |-> "none", exc |-> "", status |-> ""]

Request(method, url, hdrs, params, json, auth, timeout) ==
    [method |-> method, url |-> url, headers |-> hdrs, params |-> params,
     json |-> json, auth |-> auth, timeout |-> timeout]

\* a timeout error needs a timeout
Outcomes(req) ==
    { Response(st) : st \in Statuses } \cup { TransportError("ConnectionError") }
    \cup (IF req.timeout # <<>> THEN { TransportError("Timeout") } ELSE {})

\* the token exchange: a token, no token in the answer, no connection, or
\* any other error of the OAuth2 library (an error answer, insecure transport)
FetchOutcomes ==
    { [kind |-> "token", exc |-> "", tok |-> t] : t \in Tokens }
    \cup { [kind |-> "error", exc |-> e, tok |-> 0] :
             e \in {"MissingTokenError", "ConnectionError", "OAuth2Error"} }

(* --------------------------- the session code -------------------------- *)
\* variant: the check of secret is left out
InitTypeCheck_NoSecret(b, k, s) ==
    IF b.t # "str" THEN "TypeError"
    ELSE IF k.t # "str" THEN "TypeError"
    ELSE ""

\* __init__: the three type checks ("" is no error); a missing positional
\* argument is a TypeError of the call itself
InitTypeCheck(b, k, s) ==
    IF b.t # "str" THEN "TypeError"
    ELSE IF k.t # "str" THEN "TypeError"
    ELSE IF s.t # "str" THEN "TypeError"
    ELSE ""

\* variant: the requested format is ignored
_set_response_format_header_ignored(response_format) == NoHeaders

\* _set_response_format_header
_set_response_format_header(response_format) ==
    IF response_format = PyStr("xml")
    THEN [n \in {"Accept"} |-> <<"application/xml">>]
    ELSE NoHeaders

\* self.fetch_token(token_url=..., auth=auth): one POST with Basic
\* credentials; the stored token changes only when a token is returned
fetch_token(turl, auth, hdrs, cur, out) ==
    [reqs |-> << Request("POST", turl,
                         MergeHeaders(hdrs, [n \in {"Authorization"} |-> auth]),
                         <<>>, <<>>, auth, <<>>) >>,
     access_token |-> IF out.kind = "token" THEN <<out.tok>> ELSE cur,
     exc |-> out.exc]

\* variant: the wrong authorization scheme
AuthorizationHeader_Basic(tok) == [n \in {"Authorization"} |-> <<"Basic", tok[1]>>]

AuthorizationHeader(tok) == [n \in {"Authorization"} |-> Bearer(tok[1])]

\* variant: an Authorization header already present is kept
TokenHeaders_KeepFirst(hdrs, tok) ==
    IF tok # <<>> /\ "Authorization" \notin DOMAIN hdrs
    THEN HeadersUpdate(hdrs, AuthorizationHeader(tok)) ELSE hdrs

\* get_token: the header update that follows a fetch
TokenHeaders(hdrs, tok) ==
    IF tok # <<>> THEN HeadersUpdate(hdrs, AuthorizationHeader(tok)) ELSE hdrs

get_token(k, s, turl, cur, hdrs, out) ==
    LET f == fetch_token(turl, Basic(k, s), hdrs, cur, out)
    IN  [reqs |-> f.reqs,
         access_token |-> f.access_token,
         exc |-> f.exc,
         headers |-> IF f.exc = "" THEN TokenHeaders(hdrs, f.access_token)
                     ELSE hdrs]

\* __init__: the failures of get_token after which the session is closed
ClosesOn(exc) == exc \in {"MissingTokenError", "ConnectionError"}

\* variant: a 4xx or 5xx response is turned into an error
Return_RaiseForStatus(out) ==
    IF out.kind = "response"
    THEN (IF out.status \in {"404", "500"} THEN Raised("HTTPError")
          ELSE Returned(out.status))
    ELSE Raised(out.exc)

\* return response: the raw response goes back, an error of the
\* transport propagates
Return(out) ==
    IF out.kind = "response" THEN Returned(out.status) ELSE Raised(out.exc)

Validated(exc, req) == [exc |-> exc, reqs |-> IF exc = "" THEN <<req>> ELSE <<>>]

bib_get_by_id(bid, fields, response_format) ==
    Validated("",
        Request("GET", urljoin(base_url, <<"bibs", bid.v>>),
                MergeHeaders(headers, _set_response_format_header(response_format)),
                << <<"fields", fields.v>> >>, <<>>, <<>>, <<TIMEOUT>>))

hold_place_on_item(pid, iid, pickup_location, needed_by, note, response_format, today) ==
    LET exc == IF pid.t # "int" THEN "TypeError"
               ELSE IF iid.t # "int" THEN "TypeError"
               ELSE IF pickup_location.t # "str" THEN "TypeError"
               ELSE IF needed_by.t # "str" THEN "TypeError"
               ELSE IF note.t # "str" THEN "TypeError"
               ELSE IF needed_by.v # <<>> /\ ~StrptimeOk(needed_by.v) THEN "ValueError"
               ELSE ""
        nb == IF needed_by.v # <<>> THEN needed_by.v ELSE AddDays(today, 14)
    IN  Validated(exc,
          Request("POST", urljoin(base_url, <<"patrons", pid.v, "holds", "requests">>),
                  MergeHeaders(headers, _set_response_format_header(response_format)),
                  <<>>,
                  << <<"recordType", "i">>, <<"recordNumber", iid.v>>,
                     <<"pickupLocation", pickup_location.v>>,
                     <<"neededBy", nb>>, <<"note", note.v>> >>,
                  <<>>, <<TIMEOUT>>))

hold_delete_by_id(hid, response_format) ==
    Validated(IF hid.t # "int" THEN "TypeError" ELSE "",
        Request("DELETE", urljoin(base_url, <<"patrons", "holds", hid.v>>),
                MergeHeaders(headers, _set_response_format_header(response_format)),
                <<>>, <<>>, <<>>, <<TIMEOUT>>))

hold_get_by_id(hid, fields, response_format) ==
    Validated("",
        Request("GET", urljoin(base_url, <<"patrons", "holds", hid.v>>),
                MergeHeaders(headers, _set_response_format_header(response_format)),
                << <<"fields", fields.v>> >>, <<>>, <<>>, <<TIMEOUT>>))

hold_get_all(pid, limit, offset, fields, response_format) ==
    Validated(IF pid.t # "int" THEN "TypeError"
              ELSE IF limit.t # "int" THEN "TypeError"
              ELSE IF offset.t # "int" THEN "TypeError"
              ELSE IF fields.t # "str" THEN "TypeError"
              ELSE "",
        Request("GET", urljoin(base_url, <<"patrons", pid.v, "holds">>),
                MergeHeaders(headers, _set_response_format_header(response_format)),
                << <<"limit", limit.v>>, <<"offset", offset.v>>, <<"fields", fields.v>> >>,
                <<>>, <<>>, <<TIMEOUT>>))

hold_delete_all(pid, response_format) ==
    Validated(IF pid.t # "int" THEN "TypeError"
              ELSE IF response_format.t # "str" THEN "TypeError"
              ELSE "",
        Request("DELETE", urljoin(base_url, <<"patrons", pid.v, "holds">>),
                MergeHeaders(headers, _set_response_format_header(response_format)),
                <<>>, <<>>, <<>>, <<>>))

(* ------------------------------ the state ------------------------------ *)
Init ==
    /\ phase = "none"
    /\ base_url = UrlNone
    /\ key = PyNone
    /\ secret = PyNone
    /\ token_url = urljoin(UrlNone, <<>>)
    /\ access_token = <<>>
    /\ headers = NoHeaders
    /\ closed = FALSE
    /\ call = [op |-> "none", args |-> <<>>]
    /\ sent = <<>>
    /\ wire = NoWire
    /\ result = NoResult
    /\ issued = <<>>

FetchWire(out) ==
    IF out.kind = "token" THEN Response("200") ELSE TransportError(out.exc)

\* SierraSession(base_url, key, secret)
Construct ==
    \E b \in BaseUrls, k \in Keys, s \in Secrets, out \in FetchOutcomes :
      /\ phase = "none"
      /\ call' = [op |-> "__init__", args |-> [base_url |-> b, key |-> k, secret |-> s]]
      /\ IF InitTypeCheck(b, k, s) # ""
         THEN /\ phase' = "failed"
              /\ result' = Raised(InitTypeCheck(b, k, s))
              /\ sent' = <<>>
              /\ wire' = NoWire
              /\ UNCHANGED <<base_url, key, secret, token_url, access_token,
                             headers, closed, issued>>
         ELSE LET turl == urljoin(b, <<"token">>)
                  g == get_token(k, s, turl, <<>>,
                                 HeadersUpdate(SessionDefaults, WrapperHeaders), out)
              IN  /\ base_url' = b
                  /\ key' = k
                  /\ secret' = s
                  /\ token_url' = turl
                  /\ access_token' = g.access_token
                  /\ headers' = g.headers
                  /\ sent' = g.reqs
                  /\ wire' = FetchWire(out)
                  /\ issued' = IF out.kind = "token" THEN <<out.tok>> ELSE issued
                  /\ IF g.exc = ""
                     THEN /\ phase' = "open"
                          /\ closed' = FALSE
                          /\ result' = Returned("")
                     ELSE /\ phase' = "failed"
                          /\ closed' = ClosesOn(g.exc)
                          /\ result' = Raised(g.exc)

\* session.get_token() on a constructed session
GetToken ==
    \E out \in FetchOutcomes :
      /\ phase = "open"
      /\ LET g == get_token(key, secret, token_url, access_token, headers, out)
         IN  /\ call' = [op |-> "get_token", args |-> [before |-> access_token]]
             /\ access_token' = g.access_token
             /\ headers' = g.headers
             /\ sent' = g.reqs
             /\ wire' = FetchWire(out)
             /\ issued' = IF out.kind = "token" THEN <<out.tok>> ELSE issued
             /\ result' = IF g.exc = "" THEN Returned("") ELSE Raised(g.exc)
      /\ UNCHANGED <<phase, base_url, key, secret, token_url, closed>>

\* the common tail of the endpoint methods: nothing is sent when the
\* validation raised, else the one request and what the transport did with it
Endpoint(op, args, r) ==
    /\ phase = "open"
    /\ call' = [op |-> op, args |-> args]
    /\ IF r.exc # ""
       THEN /\ sent' = <<>>
            /\ wire' = NoWire
            /\ result' = Raised(r.exc)
       ELSE \E out \in Outcomes(r.reqs[1]) :
            /\ sent' = r.reqs
            /\ wire' = out
            /\ result' = Return(out)
    /\ UNCHANGED <<phase, base_url, key, secret, token_url, access_token,
                   headers, closed, issued>>

BibGetById ==
    \E bid \in Bids, f \in Fields, fmt \in Formats :
      Endpoint("bib_get_by_id",
               [bid |-> bid, fields |-> f, response_format |-> fmt],
               bib_get_by_id(bid, f, fmt))

HoldPlaceOnItem ==
    \E pid \in Ids, iid \in Ids, loc \in Locations, nb \in NeededBys,
       note \in Notes, fmt \in Formats :
      \* date.today() is read only when needed_by is empty
      \E today \in (IF nb.v = <<>> THEN Todays ELSE {<<2024, 2, 20>>}) :
      Endpoint("hold_place_on_item",
               [pid |-> pid, iid |-> iid, pickup_location |-> loc,
                needed_by |-> nb, note |-> note, response_format |-> fmt],
               hold_place_on_item(pid, iid, loc, nb, note, fmt, today))

HoldDeleteById ==
    \E hid \in Ids, fmt \in Formats :
      Endpoint("hold_delete_by_id", [hid |-> hid, response_format |-> fmt],
               hold_delete_by_id(hid, fmt))

HoldGetById ==
    \E hid \in Ids, f \in Fields, fmt \in Formats :
      Endpoint("hold_get_by_id",
               [hid |-> hid, fields |-> f, response_format |-> fmt],
               hold_get_by_id(hid, f, fmt))

HoldGetAll ==
    \E pid \in Ids, lim \in Limits, off \in Offsets, f \in Fields, fmt \in Formats :
      Endpoint("hold_get_all",
               [pid |-> pid, limit |-> lim, offset |-> off, fields |-> f,
                response_format |-> fmt],
               hold_get_all(pid, lim, off, f, fmt))

HoldDeleteAll ==
    \E pid \in Ids, fmt \in Formats :
      Endpoint("hold_delete_all", [pid |-> pid, response_format |-> fmt],
               hold_delete_all(pid, fmt))

Next ==
    \/ Construct
    \/ GetToken
    \/ BibGetById
    \/ HoldPlaceOnItem
    \/ HoldDeleteById
    \/ HoldGetById
    \/ HoldGetAll
    \/ HoldDeleteAll

Spec == Init /\ [][Next]_vars

(* ------------------------------ properties ----------------------------- *)
EndpointOps == {"bib_get_by_id", "hold_place_on_item", "hold_delete_by_id",
                "hold_get_by_id", "hold_get_all", "hold_delete_all"}
HoldOps == EndpointOps \ {"bib_get_by_id"}

\* the default headers of a constructed session, Authorization apart
ConstructedDefaults == HeadersUpdate(SessionDefaults, WrapperHeaders)

\* C1: a constructor call in which base URL, key or secret is missing or is
\* not a string fails with TypeError, and no request (no token request in
\* particular) has been sent and no token obtained
C1_InitRejectsBadArguments ==
    (call.op = "__init__" /\ \E a \in {call.args.base_url.t, call.args.key.t,
                                        call.args.secret.t} : a # "str")
    => /\ result = Raised("TypeError")
       /\ phase = "failed"
       /\ sent = <<>>
       /\ wire = NoWire
       /\ issued = <<>>

C1_Witness ==
    /\ call.op = "__init__"
    /\ call.args.base_url.t = "str"
    /\ call.args.key.t = "str"
    /\ call.args.secret = PyNone
    /\ result = Raised("TypeError")

\* C2: whenever the token acquisition of a construction fails, the transport
\* has been closed, the failure of the fetch is the one raised, and the
\* session is not open
C2_FailedFetchClosesSession ==
    (call.op = "__init__" /\ wire.kind = "error")
    => /\ closed
       /\ result = Raised(wire.exc)
       /\ phase # "open"

\* C3: every request sent other than the token fetch carries
\* Authorization: Bearer <current access token> and the Accept header of the
\* requested format
C3_RequestsCarryTokenAndAccept ==
    \A i \in DOMAIN sent :
      sent[i].auth = <<>> =>
        /\ access_token # <<>>
        /\ "Authorization" \in DOMAIN sent[i].headers
        /\ sent[i].headers["Authorization"] = Bearer(access_token[1])
        /\ "Accept" \in DOMAIN sent[i].headers
        /\ sent[i].headers["Accept"] =
             (IF call.args.response_format = PyStr("xml")
              THEN <<"application/xml">> ELSE <<"application/json">>)

C3_Witness ==
    /\ call.op = "hold_get_all"
    /\ call.args.response_format = PyStr("xml")
    /\ Len(sent) = 1
    /\ sent[1].auth = <<>>
    /\ access_token = <<2>>

\* C4: a successful construction has sent exactly one request, to
\* <base_url>/token with Basic credentials of key and secret, and the default
\* headers hold Authorization: Bearer <the token that request returned>
C4_OneTokenRequestToBaseToken ==
    (call.op = "__init__" /\ phase = "open")
    => /\ Len(sent) = 1
       /\ sent[1].url.path = call.args.base_url.path \o <<"token">>
       /\ sent[1].auth = Basic(call.args.key, call.args.secret)
       /\ "Authorization" \in DOMAIN headers
       /\ headers["Authorization"] = Bearer(issued[1])

\* C5: an endpoint call with response_format="xml" sends Accept:
\* application/xml, a call with the default format sends Accept:
\* application/json, the session's Accept stays application/json, and no
\* endpoint call changes the session's headers
C5_XmlOverridesPerCallOnly ==
    /\ [](/\ phase = "open" => headers["Accept"] = <<"application/json">>
          /\ (call.op \in EndpointOps /\ sent # <<>>) =>
               sent[1].headers["Accept"] =
                 (IF call.args.response_format = PyStr("xml")
                  THEN <<"application/xml">> ELSE <<"application/json">>))
    /\ [][call'.op \in EndpointOps => headers' = headers]_vars

C5_Witness ==
    /\ call.op = "hold_delete_by_id"
    /\ call.args.response_format = PyStr("xml")
    /\ Len(sent) = 1
    /\ sent[1].headers["Accept"] = <<"application/xml">>
    /\ headers["Accept"] = <<"application/json">>

\* the typed arguments of a hold method call, each with its declared type
TypedArgs(c) ==
    CASE c.op = "hold_place_on_item" ->
           { <<c.args.pid.t, "int">>, <<c.args.iid.t, "int">>,
             <<c.args.pickup_location.t, "str">>, <<c.args.needed_by.t, "str">>,
             <<c.args.note.t, "str">> }
      [] c.op = "hold_get_by_id" -> { <<c.args.hid.t, "int">> }
      [] c.op = "hold_get_all" ->
           { <<c.args.pid.t, "int">>, <<c.args.limit.t, "int">>,
             <<c.args.offset.t, "int">>, <<c.args.fields.t, "str">> }
      [] c.op = "hold_delete_by_id" -> { <<c.args.hid.t, "int">> }
      [] c.op = "hold_delete_all" ->
           { <<c.args.pid.t, "int">>, <<c.args.response_format.t, "str">> }
      [] OTHER -> {}

\* C6: a hold method call with a wrong-typed argument fails with TypeError
\* and sends no request
C6_HoldMethodsValidateTypes ==
    (call.op \in HoldOps /\ \E p \in TypedArgs(call) : p[1] # p[2])
    => /\ result = Raised("TypeError")
       /\ sent = <<>>

\* the text is a calendar date y-m-d
MonthLength(y, m) ==
    CASE m \in {1, 3, 5, 7, 8, 10, 12} -> 31
      [] m \in {4, 6, 9, 11} -> 30
      [] OTHER -> IF (y % 4 = 0 /\ y % 100 # 0) \/ y % 400 = 0 THEN 29 ELSE 28

IsCalendarDate(v) ==
    /\ Len(v) = 3
    /\ v[1] \in 1..9999
    /\ v[2] \in 1..12
    /\ v[3] >= 1
    /\ v[3] <= MonthLength(v[1], v[2])

\* a place hold call whose arguments have the declared types and whose
\* needed_by is a non-empty text that is no calendar date
BadNeededBy ==
    /\ call.op = "hold_place_on_item"
    /\ \A p \in TypedArgs(call) : p[1] = p[2]
    /\ call.args.needed_by.v # <<>>
    /\ ~IsCalendarDate(call.args.needed_by.v)

\* C7 as stated: such a call fails with the error class of a wrong-typed
\* argument (TypeError) and sends no request
C7_BadDateIsTypeError ==
    BadNeededBy => (result = Raised("TypeError") /\ sent = <<>>)

\* C7 amended: such a call fails with the ValueError of the date parser and
\* sends no request
C7_BadDateIsValueError ==
    BadNeededBy => (result = Raised("ValueError") /\ sent = <<>>)

C7_Witness ==
    /\ BadNeededBy
    /\ call.args.needed_by.v = <<2024, 13, 40>>
    /\ result = Raised("ValueError")

\* C8: every request of an endpoint method is sent with the timeout of 5
\* seconds
C8_EndpointRequestsHaveTimeout ==
    \A i \in DOMAIN sent :
      (call.op \in EndpointOps /\ sent[i].auth = <<>>) => sent[i].timeout = <<TIMEOUT>>

\* C9: an endpoint call either failed its validation and sent nothing, or
\* sent exactly one request and handed back what the transport gave: the
\* response whatever its status, or the transport's error
C9_OneRequestRawResponse ==
    call.op \in EndpointOps =>
      \/ /\ sent = <<>>
         /\ wire = NoWire
         /\ result \in {Raised("TypeError"), Raised("ValueError")}
      \/ /\ Len(sent) = 1
         /\ wire.kind = "response" => result = Returned(wire.status)
         /\ wire.kind = "error" => result = Raised(wire.exc)
         /\ wire.kind \in {"response", "error"}

C9_Witness ==
    /\ call.op = "bib_get_by_id"
    /\ Len(sent) = 1
    /\ wire = Response("500")
    /\ result = Returned("500")

\* C10: on a constructed session the stored token and the Authorization
\* header are those of the most recent fetch that returned a token, and every
\* other default header is as construction left it
C10_GetTokenReplacesToken ==
    phase = "open" =>
      /\ issued # <<>>
      /\ access_token = issued
      /\ DOMAIN headers = DOMAIN ConstructedDefaults \cup {"Authorization"}
      /\ headers["Authorization"] = Bearer(issued[1])
      /\ \A n \in DOMAIN ConstructedDefaults : headers[n] = ConstructedDefaults[n]

C10_Witness ==
    /\ call.op = "get_token"
    /\ result = Returned("")
    /\ call.args.before # <<>>
    /\ call.args.before # access_token
    /\ headers["Authorization"] = Bearer(access_token[1])
====
